---- MODULE Spec2Model ----
(***************************************************************************)
(* Model of zep-eval-harness/optimize_params.py: the parameter grid sweep  *)
(* that patches zep_evaluate.py, runs the evaluation command, harvests the *)
(* newest result artifact, ranks the outcomes, writes a report and applies *)
(* the best configuration.                                                 *)
(*                                                                         *)
(* A file's content is the text the program reads and writes: a sequence   *)
(* of one-character strings.  Numbers of the result artifact are integers  *)
(* (percentages), totally ordered.                                         *)
(***************************************************************************)
EXTENDS Integers, Sequences, FiniteSets, TLC

VARIABLES
    grid,       \* PARAM_GRID of this sweep
    config,     \* content of zep_evaluate.py on disk
    artifacts,  \* files matching runs/*/evaluation_results_*.json
    pc,         \* position of main()
    i,          \* index of the tuple the for loop of main() is at
    results,    \* the list `results` of main()
    report,     \* <<>> while no report file exists, else <<content>>
    hist,       \* history: per tuple processed, the run, the artifact its child
                \* wrote (fresh), the artifact that was read (seen), the outcome
    config0,    \* history: content of zep_evaluate.py when the sweep began
    before,     \* history: content of zep_evaluate.py before the latest patch
    applied,    \* history: the patches applied so far, latest last
    proc,       \* <<>>, or <<p>> for the completed process subprocess.run returned
    error,      \* "none", or the step whose exception ended main()
    children,   \* the evaluation processes that are running, by index of their tuple
    launches,   \* history: index of the tuple of each call of subprocess.run
    reportFiles \* the files optimization_results_<second>.json, by second

vars == <<grid, config, artifacts, pc, i, results, report, hist, config0, before,
          applied, proc, error, children, launches, reportFiles>>

----------------------------------------------------------------------------
(* Bounds of the model *)

MaxGrid == 2        \* longest prefix of PARAM_GRID that is swept
MaxLines == 2       \* most lines of a file the patch is tried on
MaxStale == 1       \* most artifacts left behind by earlier sweeps
MaxPatches == 2     \* most patches applied in a row to one file

----------------------------------------------------------------------------
(* Text *)

NL == "\n"

FACTS_PREFIX == <<"F","A","C","T","S","_","L","I","M","I","T"," ","=">>
ENTITIES_PREFIX == <<"E","N","T","I","T","I","E","S","_","L","I","M","I","T"," ","=">>
EPISODES_PREFIX == <<"E","P","I","S","O","D","E","S","_","L","I","M","I","T"," ","=">>

TRIAL_COMMENT == <<"#"," ","O","p","t","i","m","i","z","e","d"," ","b","y"," ","g","r","i","d"," ","s","e","a","r","c","h">>
BEST_COMMENT == <<"#"," ","O","P","T","I","M","I","Z","E","D"," ","-"," ","B","e","s","t"," ","f","r","o","m"," ","g","r","i","d"," ","s","e","a","r","c","h">>

DigitChars == <<"0","1","2","3","4","5","6","7","8","9">>

\* str(n) of a non-negative integer, as the f-string renders it
RECURSIVE Digits(_)
Digits(n) ==
    IF n < 10 THEN <<DigitChars[n + 1]>>
    ELSE Digits(n \div 10) \o <<DigitChars[(n % 10) + 1]>>

Spaces(k) == [j \in 1..k |-> " "]

\* line.startswith(prefix)
StartsWith(line, prefix) ==
    /\ Len(line) >= Len(prefix)
    /\ SubSeq(line, 1, Len(prefix)) = prefix

\* content.split('\n'): the pieces between consecutive newlines, one more
\* piece than there are newlines
NewlinesOf(content) == {k \in 1..Len(content) : content[k] = NL}

Split(content) ==
    LET nls == NewlinesOf(content)
        n == Cardinality(nls)
        \* position of the j-th newline; 0 before the first, Len+1 after the last
        cut == [j \in 0..(n + 1) |->
                   IF j = 0 THEN 0
                   ELSE IF j = n + 1 THEN Len(content) + 1
                   ELSE CHOOSE k \in nls : Cardinality({m \in nls : m < k}) = j - 1]
    IN  [j \in 1..(n + 1) |-> SubSeq(content, cut[j - 1] + 1, cut[j] - 1)]

\* '\n'.join(lines)
RECURSIVE Join(_)
Join(lines) ==
    IF Len(lines) = 0 THEN <<>>
    ELSE IF Len(lines) = 1 THEN lines[1]
    ELSE lines[1] \o <<NL>> \o Join(Tail(lines))

----------------------------------------------------------------------------
(* The patch of zep_evaluate.py *)

\* variant: EPISODES_LIMIT is rewritten under the name of ENTITIES_LIMIT
TrialEpisodesLineAsEntities(n) ==
    ENTITIES_PREFIX \o <<" ">> \o Digits(n) \o Spaces(4) \o TRIAL_COMMENT

\* the three replacement lines of run_evaluation_with_params
TrialFactsLine(n) == FACTS_PREFIX \o <<" ">> \o Digits(n) \o Spaces(6) \o TRIAL_COMMENT
TrialEntitiesLine(n) == ENTITIES_PREFIX \o <<" ">> \o Digits(n) \o Spaces(3) \o TRIAL_COMMENT
TrialEpisodesLine(n) == EPISODES_PREFIX \o <<" ">> \o Digits(n) \o Spaces(4) \o TRIAL_COMMENT

\* the three replacement lines of main
BestFactsLine(n) == FACTS_PREFIX \o <<" ">> \o Digits(n) \o Spaces(6) \o BEST_COMMENT
BestEntitiesLine(n) == ENTITIES_PREFIX \o <<" ">> \o Digits(n) \o Spaces(3) \o BEST_COMMENT
BestEpisodesLine(n) == EPISODES_PREFIX \o <<" ">> \o Digits(n) \o Spaces(4) \o BEST_COMMENT

\* TRUE when the prefix occurs somewhere in the line
Contains(line, prefix) ==
    \E k \in 0..(Len(line) - Len(prefix)) : SubSeq(line, k + 1, k + Len(prefix)) = prefix

\* variant: a line is rewritten when the prefix occurs anywhere in it
TrialLineAnywhere(line, t) ==
    IF Contains(line, FACTS_PREFIX) THEN TrialFactsLine(t[1])
    ELSE IF Contains(line, ENTITIES_PREFIX) THEN TrialEntitiesLine(t[2])
    ELSE IF Contains(line, EPISODES_PREFIX) THEN TrialEpisodesLine(t[3])
    ELSE line

\* variant: the text behind the prefix is kept behind the new text
TrialLineKeepsTail(line, t) ==
    IF StartsWith(line, FACTS_PREFIX)
    THEN TrialFactsLine(t[1]) \o SubSeq(line, Len(FACTS_PREFIX) + 1, Len(line))
    ELSE IF StartsWith(line, ENTITIES_PREFIX)
    THEN TrialEntitiesLine(t[2]) \o SubSeq(line, Len(ENTITIES_PREFIX) + 1, Len(line))
    ELSE IF StartsWith(line, EPISODES_PREFIX)
    THEN TrialEpisodesLine(t[3]) \o SubSeq(line, Len(EPISODES_PREFIX) + 1, Len(line))
    ELSE line

\* one pass of the loop `for line in lines` of run_evaluation_with_params
TrialLine(line, t) ==
    IF StartsWith(line, FACTS_PREFIX) THEN TrialFactsLine(t[1])
    ELSE IF StartsWith(line, ENTITIES_PREFIX) THEN TrialEntitiesLine(t[2])
    ELSE IF StartsWith(line, EPISODES_PREFIX) THEN TrialEpisodesLine(t[3])
    ELSE line

\* variant: the values of ENTITIES_LIMIT and EPISODES_LIMIT are exchanged
BestLineSwapped(line, t) ==
    IF StartsWith(line, FACTS_PREFIX) THEN BestFactsLine(t[1])
    ELSE IF StartsWith(line, ENTITIES_PREFIX) THEN BestEntitiesLine(t[3])
    ELSE IF StartsWith(line, EPISODES_PREFIX) THEN BestEpisodesLine(t[2])
    ELSE line

\* one pass of the loop `for line in lines` of main
BestLine(line, t) ==
    IF StartsWith(line, FACTS_PREFIX) THEN BestFactsLine(t[1])
    ELSE IF StartsWith(line, ENTITIES_PREFIX) THEN BestEntitiesLine(t[2])
    ELSE IF StartsWith(line, EPISODES_PREFIX) THEN BestEpisodesLine(t[3])
    ELSE line

\* read, split, replace, join, write: the new content of the file
TrialPatched(content, t) ==
    LET lines == Split(content)
        new_lines == [k \in 1..Len(lines) |-> TrialLine(lines[k], t)]
    IN  Join(new_lines)

BestPatched(content, t) ==
    LET lines == Split(content)
        new_lines == [k \in 1..Len(lines) |-> BestLine(lines[k], t)]
    IN  Join(new_lines)

\* int(...) of the digits that follow the prefix and its blanks: the value the
\* evaluation program binds when it executes the line
RECURSIVE ParseFrom(_, _, _)
ParseFrom(line, k, acc) ==
    IF k > Len(line) THEN acc
    ELSE IF \E d \in 1..10 : DigitChars[d] = line[k]
         THEN ParseFrom(line, k + 1,
                        10 * acc + ((CHOOSE d \in 1..10 : DigitChars[d] = line[k]) - 1))
         ELSE acc

RECURSIVE SkipBlanks(_, _)
SkipBlanks(line, k) ==
    IF k <= Len(line) /\ line[k] = " " THEN SkipBlanks(line, k + 1) ELSE k

\* TRUE when the line is `<prefix> <digits>...`
HasValue(line, prefix) ==
    /\ StartsWith(line, prefix)
    /\ LET k == SkipBlanks(line, Len(prefix) + 1)
       IN  k <= Len(line) /\ \E d \in 1..10 : DigitChars[d] = line[k]

ValueOf(line, prefix) == ParseFrom(line, SkipBlanks(line, Len(prefix) + 1), 0)

Prefixes == <<FACTS_PREFIX, ENTITIES_PREFIX, EPISODES_PREFIX>>

Recognized(line) == \E p \in 1..3 : StartsWith(line, Prefixes[p])

----------------------------------------------------------------------------
(* The grid *)

PARAM_GRID == <<
    <<25, 15, 5>>,
    <<30, 12, 5>>,
    <<35, 10, 5>>,
    <<40, 8, 3>>,
    <<50, 5, 0>>,
    <<30, 20, 0>>,
    <<25, 25, 0>>,
    <<45, 5, 5>> >>

\* the grid of the end-to-end scenario
ExampleGrid == << <<25, 15, 5>>, <<50, 5, 0>> >>

Min(a, b) == IF a < b THEN a ELSE b

\* the grids that are swept: the leading tuples of PARAM_GRID, and the example
Grids ==
    { SubSeq(PARAM_GRID, 1, n) : n \in 1..Min(MaxGrid, Len(PARAM_GRID)) }
        \cup {ExampleGrid}

----------------------------------------------------------------------------
(* Contents of zep_evaluate.py *)

L_import == <<"i","m","p","o","r","t"," ","o","s">>
L_indent == <<" "," "," "," ","F","A","C","T","S","_","L","I","M","I","T"," ","="," ","1">>
L_nospace == <<"E","N","T","I","T","I","E","S","_","L","I","M","I","T","=","7">>
L_comment == <<"#"," ","E","P","I","S","O","D","E","S","_","L","I","M","I","T"," ","="," ","9">>
L_facts == <<"F","A","C","T","S","_","L","I","M","I","T"," ","="," ","2","0">>
L_entities == <<"E","N","T","I","T","I","E","S","_","L","I","M","I","T"," ","="," ","1","0"," "," ","#"," ","d","e","f","a","u","l","t">>
L_episodes == <<"E","P","I","S","O","D","E","S","_","L","I","M","I","T"," ","="," ","5">>
L_empty == <<>>

\* files the sweep starts from: two that hold one line per setting, one that
\* lacks the ENTITIES_LIMIT line, one that holds FACTS_LIMIT twice
ConfigFiles == {
    Join(<<L_import, L_facts, L_entities, L_episodes, L_empty>>),
    Join(<<L_episodes, L_indent, L_facts, L_nospace, L_entities>>),
    Join(<<L_facts, L_comment, L_episodes>>),
    Join(<<L_facts, L_entities, L_facts, L_episodes>>) }

\* number of the lines that start with the prefix
CountPrefix(lines, prefix) ==
    Cardinality({k \in 1..Len(lines) : StartsWith(lines[k], prefix)})

\* the configuration file contract: exactly one line per recognized prefix
Contract(content) ==
    LET lines == Split(content)
    IN  \A p \in 1..3 : CountPrefix(lines, Prefixes[p]) = 1

\* every line of the content that starts with a recognized prefix holds the
\* tuple's value for that setting
HoldsTuple(content, t) ==
    LET lines == Split(content)
    IN  \A k \in 1..Len(lines) : \A p \in 1..3 :
            StartsWith(lines[k], Prefixes[p]) =>
                /\ HasValue(lines[k], Prefixes[p])
                /\ ValueOf(lines[k], Prefixes[p]) = t[p]

----------------------------------------------------------------------------
(* Result artifacts *)

\* a scalar of the parsed document, or the lookup that raises
Num(n) == [t |-> "num", n |-> n]
Str == [t |-> "str", n |-> 0]
Missing == [t |-> "missing", n |-> 0]

Doc(ok, ha, hc, oa) ==
    [parses |-> ok, hard_accuracy |-> ha, hard_completeness |-> hc, overall_accuracy |-> oa]

Accuracies == {70, 90}

GoodDocs == { Doc(TRUE, Num(a), Num(80), Num(75)) : a \in Accuracies }

BadDocs == {
    Doc(FALSE, Missing, Missing, Missing),      \* not JSON
    Doc(TRUE, Missing, Num(80), Num(75)),       \* no hard accuracy rate
    Doc(TRUE, Str, Num(80), Num(75)),           \* hard accuracy rate is a string
    Doc(TRUE, Num(70), Missing, Num(75)),       \* no hard completeness rate
    Doc(TRUE, Num(90), Num(80), Missing),       \* no aggregate accuracy rate
    Doc(TRUE, Num(90), Str, Num(75)) }          \* completeness rate is a string

Docs == GoodDocs \cup BadDocs

\* artifacts left by earlier sweeps when this sweep begins
StaleSets ==
    { { [path |-> j, ctime |-> j, doc |-> Doc(TRUE, Num(90), Num(80), Num(75)), writer |-> 0]
          : j \in 1..n } : n \in 0..MaxStale }

\* max(eval_files, key=os.path.getctime)
Latest(eval_files) == CHOOSE f \in eval_files : \A g \in eval_files : g.ctime <= f.ctime

\* the artifact the child of tuple k writes
Fresh(files, k, doc) ==
    [path |-> Cardinality(files) + 1, ctime |-> Cardinality(files) + 1, doc |-> doc, writer |-> k]

\* '{x:.2f}' raises unless x is a number
Formats(leaf) == leaf.t = "num"

\* lines 63-84: the value run_evaluation_with_params returns once the command
\* has completed: <<>> is None, <<d>> the dict d
Harvested(eval_files, t) ==
    IF eval_files = {} THEN <<>>
    ELSE LET latest_file == Latest(eval_files)
             doc == latest_file.doc
         IN  IF ~doc.parses THEN <<>>
             ELSE IF doc.hard_accuracy.t = "missing" THEN <<>>
             ELSE IF ~Formats(doc.hard_accuracy) THEN <<>>
             ELSE IF doc.hard_completeness.t = "missing" THEN <<>>
             ELSE IF doc.overall_accuracy.t = "missing" THEN <<>>
             ELSE << [facts |-> t[1], entities |-> t[2], episodes |-> t[3],
                      hard_accuracy |-> doc.hard_accuracy.n,
                      results_file |-> latest_file.path,
                      completeness |-> doc.hard_completeness,
                      overall_accuracy |-> doc.overall_accuracy] >>

----------------------------------------------------------------------------
(* Ranking *)

\* variant: the sort without reverse=True
RECURSIVE InsertAsc(_, _)
InsertAsc(x, sorted) ==
    IF sorted = <<>> THEN <<x>>
    ELSE IF Head(sorted).hard_accuracy <= x.hard_accuracy
         THEN <<Head(sorted)>> \o InsertAsc(x, Tail(sorted))
         ELSE <<x>> \o sorted

\* variant: an ascending sort that is reversed, which turns ties around
RECURSIVE InsertDescTiesReversed(_, _)
InsertDescTiesReversed(x, sorted) ==
    IF sorted = <<>> THEN <<x>>
    ELSE IF Head(sorted).hard_accuracy > x.hard_accuracy
         THEN <<Head(sorted)>> \o InsertDescTiesReversed(x, Tail(sorted))
         ELSE <<x>> \o sorted

\* results.sort(key=hard_accuracy, reverse=True): a stable sort, so an entry
\* goes behind every entry whose key is not smaller
RECURSIVE InsertDesc(_, _)
InsertDesc(x, sorted) ==
    IF sorted = <<>> THEN <<x>>
    ELSE IF Head(sorted).hard_accuracy >= x.hard_accuracy
         THEN <<Head(sorted)>> \o InsertDesc(x, Tail(sorted))
         ELSE <<x>> \o sorted

RECURSIVE SortDesc(_)
SortDesc(rs) ==
    IF rs = <<>> THEN <<>>
    ELSE InsertDesc(rs[Len(rs)], SortDesc(SubSeq(rs, 1, Len(rs) - 1)))

\* the table of lines 114-116 prints unless a rate does not format
TablePrints(rs) ==
    \A k \in 1..Len(rs) : Formats(rs[k].completeness) /\ Formats(rs[k].overall_accuracy)

----------------------------------------------------------------------------
(* Report files *)

\* strftime("%Y%m%dT%H%M%S") of the local clock when a report is written: the
\* second an earlier sweep wrote its report in, or another second
PriorSecond == "prior"
Seconds == {PriorSecond, "other"}

\* the ranking an earlier sweep left in its report
PriorRanking ==
    << [facts |-> 40, entities |-> 8, episodes |-> 3, hard_accuracy |-> 80,
        results_file |-> 1, completeness |-> Num(80), overall_accuracy |-> Num(75)] >>

----------------------------------------------------------------------------
(* main() *)

Init ==
    /\ grid \in Grids
    /\ config \in ConfigFiles
    /\ artifacts \in StaleSets
    /\ pc = "loop"
    /\ i = 1
    /\ results = <<>>
    /\ report = <<>>
    /\ hist = <<>>
    /\ config0 = config
    /\ before = config
    /\ applied = <<>>
    /\ proc = <<>>
    /\ error = "none"
    /\ children = {}
    /\ launches = <<>>
    /\ reportFiles = [s \in Seconds |-> IF s = PriorSecond THEN <<PriorRanking>> ELSE <<>>]

\* lines 32-51: the file is read, patched and written back
TrialPatch ==
    /\ pc = "loop"
    /\ i <= Len(grid)
    /\ config' = TrialPatched(config, grid[i])
    /\ before' = config
    /\ applied' = Append(applied, [kind |-> "trial", tuple |-> grid[i]])
    /\ pc' = "exec"
    /\ UNCHANGED <<grid, artifacts, i, results, report, hist, config0, proc, error,
                   children, launches, reportFiles>>

\* lines 32-51: open() raises; no handler encloses it, so main() ends
TrialPatchFails ==
    /\ pc = "loop"
    /\ i <= Len(grid)
    /\ pc' = "crashed"
    /\ error' = "patch"
    /\ UNCHANGED <<grid, config, artifacts, i, results, report, hist, config0,
                   before, applied, proc, children, launches, reportFiles>>

\* variant: the outcome is put in front of the list
CollectInFront(outcome, run, returncode, fresh, seen) ==
    /\ results' = IF outcome # <<>> THEN <<outcome[1]>> \o results ELSE results
    /\ hist' = Append(hist, [tuple |-> grid[i], run |-> run, returncode |-> returncode,
                             fresh |-> fresh, seen |-> seen, outcome |-> outcome])
    /\ i' = i + 1
    /\ pc' = "loop"
    /\ proc' = <<>>

\* what run_evaluation_with_params hands back to the loop of main, lines 100-102
Collect(outcome, run, returncode, fresh, seen) ==
    /\ results' = IF outcome # <<>> THEN Append(results, outcome[1]) ELSE results
    /\ hist' = Append(hist, [tuple |-> grid[i], run |-> run, returncode |-> returncode,
                             fresh |-> fresh, seen |-> seen, outcome |-> outcome])
    /\ i' = i + 1
    /\ pc' = "loop"
    /\ proc' = <<>>

\* lines 55-60 and 85-87: the command cannot be started
RunLaunchFailed ==
    /\ pc = "exec"
    /\ launches' = Append(launches, i)
    /\ Collect(<<>>, "launch_failed", 0, 0, 0)
    /\ UNCHANGED <<grid, config, artifacts, report, config0, before, applied, error,
                   children, reportFiles>>

\* lines 55-60: the command is started and subprocess.run waits for it
Launch ==
    /\ pc = "exec"
    /\ launches' = Append(launches, i)
    /\ children' = children \cup {i}
    /\ pc' = "wait"
    /\ UNCHANGED <<grid, config, artifacts, i, results, report, hist, config0, before,
                   applied, proc, error, reportFiles>>

\* variant: the timeout is swallowed and the artifacts are read all the same
RunTimedOutHarvests ==
    /\ pc = "wait"
    /\ children' = children \ {i}
    /\ Collect(Harvested(artifacts, grid[i]), "timed_out", 0, 0,
               IF artifacts = {} THEN 0 ELSE Latest(artifacts).path)
    /\ UNCHANGED <<grid, config, artifacts, report, config0, before, applied, error,
                   launches, reportFiles>>

\* variant: after a timeout the command is started again for the same tuple
RunTimedOutRetries ==
    /\ pc = "wait"
    /\ children' = children \ {i}
    /\ pc' = "exec"
    /\ UNCHANGED <<grid, config, artifacts, i, results, report, hist, config0, before,
                   applied, proc, error, launches, reportFiles>>

\* lines 55-60 and 85-87: the command runs into the timeout.  subprocess.run
\* kills the process it started, the launcher `uv`; the evaluation process the
\* launcher started ends with it or goes on running
RunTimedOut ==
    /\ pc = "wait"
    /\ \/ children' = children \ {i}
       \/ children' = children
    /\ Collect(<<>>, "timed_out", 0, 0, 0)
    /\ UNCHANGED <<grid, config, artifacts, report, config0, before, applied, error,
                   launches, reportFiles>>

\* lines 55-60: the command exits, having written an artifact or not
RunCompleted ==
    /\ pc = "wait"
    /\ \E returncode \in {0, 1} :
          \/ /\ artifacts' = artifacts
             /\ proc' = <<[returncode |-> returncode, fresh |-> 0]>>
          \/ \E doc \in Docs :
                LET f == Fresh(artifacts, i, doc)
                IN  /\ artifacts' = artifacts \cup {f}
                    /\ proc' = <<[returncode |-> returncode, fresh |-> f.path]>>
    /\ children' = children \ {i}
    /\ pc' = "harvest"
    /\ UNCHANGED <<grid, config, i, results, report, hist, config0, before, applied,
                   error, launches, reportFiles>>

\* an evaluation process that outlived its launcher ends while the loop goes
\* on, having written its artifact or not
OrphanEnds ==
    /\ pc \in {"loop", "exec", "wait", "harvest"}
    /\ \E k \in children :
          /\ ~(pc = "wait" /\ k = i)
          /\ children' = children \ {k}
          /\ \/ artifacts' = artifacts
             \/ artifacts' = artifacts \cup {Fresh(artifacts, k, Doc(TRUE, Num(70), Num(80), Num(75)))}
    /\ UNCHANGED <<grid, config, pc, i, results, report, hist, config0, before, applied,
                   proc, error, launches, reportFiles>>

\* lines 63-87: the newest artifact is located, parsed and its rates extracted
Harvest ==
    /\ pc = "harvest"
    /\ Collect(Harvested(artifacts, grid[i]), "completed", proc[1].returncode, proc[1].fresh,
               IF artifacts = {} THEN 0 ELSE Latest(artifacts).path)
    /\ UNCHANGED <<grid, config, artifacts, report, config0, before, applied, error,
                   children, launches, reportFiles>>

\* line 105
Rank ==
    /\ pc = "loop"
    /\ i > Len(grid)
    /\ results' = SortDesc(results)
    /\ pc' = "table"
    /\ UNCHANGED <<grid, config, artifacts, i, report, hist, config0, before,
                   applied, proc, error, children, launches, reportFiles>>

\* lines 107-116: the table is printed, or a format raises and main() ends
PrintTable ==
    /\ pc = "table"
    /\ IF TablePrints(results)
       THEN pc' = "report" /\ error' = error
       ELSE pc' = "crashed" /\ error' = "table"
    /\ UNCHANGED <<grid, config, artifacts, i, results, report, hist, config0,
                   before, applied, proc, children, launches, reportFiles>>

\* variant: the report is written only when there is an outcome
WriteReportIfAny ==
    /\ pc = "report"
    /\ \E s \in Seconds :
          reportFiles' = IF results # <<>> THEN [reportFiles EXCEPT ![s] = <<results>>]
                         ELSE reportFiles
    /\ report' = IF results # <<>> THEN <<results>> ELSE report
    /\ pc' = "apply"
    /\ UNCHANGED <<grid, config, artifacts, i, results, hist, config0, before,
                   applied, proc, error, children, launches>>

\* lines 119-122: the file named after the current second is opened with
\* mode 'w' and the ranking is written to it
WriteReport ==
    /\ pc = "report"
    /\ \E s \in Seconds : reportFiles' = [reportFiles EXCEPT ![s] = <<results>>]
    /\ report' = <<results>>
    /\ pc' = "apply"
    /\ UNCHANGED <<grid, config, artifacts, i, results, hist, config0, before,
                   applied, proc, error, children, launches>>

\* lines 119-122: open() raises and main() ends
WriteReportFails ==
    /\ pc = "report"
    /\ pc' = "crashed"
    /\ error' = "report"
    /\ UNCHANGED <<grid, config, artifacts, i, results, report, hist, config0,
                   before, applied, proc, children, launches, reportFiles>>

\* variant: best = results[-1]
ApplyBestLast ==
    /\ pc = "apply"
    /\ IF results # <<>>
       THEN LET best == results[Len(results)]
                t == <<best.facts, best.entities, best.episodes>>
            IN  /\ config' = BestPatched(config, t)
                /\ before' = config
                /\ applied' = Append(applied, [kind |-> "best", tuple |-> t])
       ELSE UNCHANGED <<config, before, applied>>
    /\ pc' = "done"
    /\ UNCHANGED <<grid, artifacts, i, results, report, hist, config0, proc, error,
                   children, launches, reportFiles>>

\* variant: without a winner the file the sweep began with is written back
ApplyBestRestores ==
    /\ pc = "apply"
    /\ IF results # <<>>
       THEN LET best == results[1]
                t == <<best.facts, best.entities, best.episodes>>
            IN  /\ config' = BestPatched(config, t)
                /\ before' = config
                /\ applied' = Append(applied, [kind |-> "best", tuple |-> t])
       ELSE /\ config' = config0
            /\ UNCHANGED <<before, applied>>
    /\ pc' = "done"
    /\ UNCHANGED <<grid, artifacts, i, results, report, hist, config0, proc, error,
                   children, launches, reportFiles>>

\* lines 127-157
ApplyBest ==
    /\ pc = "apply"
    /\ IF results # <<>>
       THEN LET best == results[1]
                t == <<best.facts, best.entities, best.episodes>>
            IN  /\ config' = BestPatched(config, t)
                /\ before' = config
                /\ applied' = Append(applied, [kind |-> "best", tuple |-> t])
       ELSE UNCHANGED <<config, before, applied>>
    /\ pc' = "done"
    /\ UNCHANGED <<grid, artifacts, i, results, report, hist, config0, proc, error,
                   children, launches, reportFiles>>

\* lines 139-155: open() raises and main() ends
ApplyBestFails ==
    /\ pc = "apply"
    /\ results # <<>>
    /\ pc' = "crashed"
    /\ error' = "apply"
    /\ UNCHANGED <<grid, config, artifacts, i, results, report, hist, config0,
                   before, applied, proc, children, launches, reportFiles>>

Next ==
    \/ TrialPatch
    \/ TrialPatchFails
    \/ RunLaunchFailed
    \/ Launch
    \/ RunTimedOut
    \/ RunCompleted
    \/ OrphanEnds
    \/ Harvest
    \/ Rank
    \/ PrintTable
    \/ WriteReport
    \/ WriteReportFails
    \/ ApplyBest
    \/ ApplyBestFails

Spec == Init /\ [][Next]_vars

----------------------------------------------------------------------------
(* The patch on its own: any file, any tuple, the two patches in any order *)

L_bare == <<"F","A","C","T","S","_","L","I","M","I","T"," ","=">>

LinePool == {L_import, L_indent, L_nospace, L_facts, L_entities, L_episodes, L_empty, L_bare}

AnyFiles == { Join(ls) : ls \in UNION { [1..n -> LinePool] : n \in 1..MaxLines } }

AnyTuples == { PARAM_GRID[k] : k \in 1..Len(PARAM_GRID) }

InitPatch ==
    /\ grid = PARAM_GRID
    /\ config \in AnyFiles
    /\ artifacts = {}
    /\ pc = "patching"
    /\ i = 1
    /\ results = <<>>
    /\ report = <<>>
    /\ hist = <<>>
    /\ config0 = config
    /\ before = config
    /\ applied = <<>>
    /\ proc = <<>>
    /\ error = "none"
    /\ children = {}
    /\ launches = <<>>
    /\ reportFiles = [s \in Seconds |-> <<>>]

\* lines 32-51 with any tuple
TrialPatchAny ==
    /\ pc = "patching"
    /\ Len(applied) < MaxPatches
    /\ \E t \in AnyTuples :
          /\ config' = TrialPatched(config, t)
          /\ applied' = Append(applied, [kind |-> "trial", tuple |-> t])
    /\ before' = config
    /\ UNCHANGED <<grid, artifacts, pc, i, results, report, hist, config0, proc, error,
                   children, launches, reportFiles>>

\* lines 139-155 with any tuple
BestPatchAny ==
    /\ pc = "patching"
    /\ Len(applied) < MaxPatches
    /\ \E t \in AnyTuples :
          /\ config' = BestPatched(config, t)
          /\ applied' = Append(applied, [kind |-> "best", tuple |-> t])
    /\ before' = config
    /\ UNCHANGED <<grid, artifacts, pc, i, results, report, hist, config0, proc, error,
                   children, launches, reportFiles>>

NextPatch == TrialPatchAny \/ BestPatchAny

SpecPatch == InitPatch /\ [][NextPatch]_vars

----------------------------------------------------------------------------
(* Properties *)

\* C8: one patch, trial or best, of any file with any tuple keeps the number
\* of lines and leaves every line that starts with none of the three prefixes
\* as it was and where it was; a file with no such prefix is written back
\* unchanged.
PatchFrame ==
    applied # <<>> =>
        LET lb == Split(before)
            la == Split(config)
        IN  /\ Len(la) = Len(lb)
            /\ \A k \in 1..Len(lb) :
                  ~Recognized(lb[k]) => (k <= Len(la) /\ la[k] = lb[k])
            /\ (\A k \in 1..Len(lb) : ~Recognized(lb[k])) => config = before

\* a patch has rewritten a line next to a line that only resembles a setting
PatchFrameWitness ==
    /\ pc = "patching"
    /\ Len(applied) = 1
    /\ config # before
    /\ \E k \in 1..Len(Split(before)) :
          Split(before)[k] = L_indent /\ Split(config)[k] = L_indent

\* C9: the trial patch applied twice in a row with the same tuple leaves,
\* after the second application, the file of the first application.
PatchIdempotent ==
    ( /\ Len(applied) >= 2
      /\ applied[Len(applied)].kind = "trial"
      /\ applied[Len(applied) - 1].kind = "trial"
      /\ applied[Len(applied)].tuple = applied[Len(applied) - 1].tuple )
    => config = before

\* the same tuple has been applied twice to a file the first patch changed
PatchIdempotentWitness ==
    /\ Len(applied) = 2
    /\ applied[1] = applied[2]
    /\ applied[1].kind = "trial"
    /\ config # config0
    /\ config = before

----------------------------------------------------------------------------
(* Properties of the sweep *)

\* what run_evaluation_with_params returned for the tuples so far, None left out
RECURSIVE Outcomes(_)
Outcomes(h) ==
    IF h = <<>> THEN <<>>
    ELSE Outcomes(SubSeq(h, 1, Len(h) - 1)) \o h[Len(h)].outcome

TupleOf(r) == <<r.facts, r.entities, r.episodes>>

ArtifactAt(path) == CHOOSE f \in artifacts : f.path = path

SortedDesc(rs) ==
    \A j, k \in 1..Len(rs) : j < k => rs[j].hard_accuracy >= rs[k].hard_accuracy

IsPermutation(a, b) ==
    /\ Len(a) = Len(b)
    /\ \E f \in [1..Len(a) -> 1..Len(a)] :
          /\ \A j, k \in 1..Len(a) : j # k => f[j] # f[k]
          /\ \A k \in 1..Len(a) : a[k] = b[f[k]]

\* every run of the grid completed with status 0, wrote its own artifact and
\* that artifact gave a populated outcome
EveryRunFresh ==
    /\ Len(hist) = Len(grid)
    /\ \A k \in 1..Len(hist) :
          /\ hist[k].run = "completed"
          /\ hist[k].returncode = 0
          /\ hist[k].fresh # 0
          /\ hist[k].outcome # <<>>

\* the hard accuracy rate in the artifact the run of tuple k wrote
FreshAccuracy(k) == ArtifactAt(hist[k].fresh).doc.hard_accuracy.n

\* C1: when every run succeeds and writes its own artifact, after main() the
\* head of the report is a grid tuple whose artifact has the maximum hard
\* accuracy and the three settings of the configuration file hold its values.
EndToEndWinner ==
    (pc = "done" /\ EveryRunFresh) =>
        /\ report # <<>>
        /\ report[1] # <<>>
        /\ \E k \in 1..Len(grid) :
              /\ TupleOf(report[1][1]) = grid[k]
              /\ report[1][1].hard_accuracy = FreshAccuracy(k)
              /\ report[1][1].results_file = hist[k].fresh
              /\ \A j \in 1..Len(grid) : FreshAccuracy(j) <= FreshAccuracy(k)
              /\ HoldsTuple(config, grid[k])

\* the end-to-end scenario: accuracies 70 then 90 on the example grid
EndToEndWitness ==
    /\ pc = "done"
    /\ EveryRunFresh
    /\ grid = ExampleGrid
    /\ Contract(config0)
    /\ FreshAccuracy(1) = 70
    /\ FreshAccuracy(2) = 90
    /\ TupleOf(report[1][1]) = <<50, 5, 0>>
    /\ HoldsTuple(config, <<50, 5, 0>>)

\* C2: starting from a file with one line per setting, once a patch has been
\* applied the file holds the values of the latest applied tuple and every
\* other line is the line the file had when the sweep began.
ConfigInvariant ==
    (Contract(config0) /\ applied # <<>>) =>
        LET lines0 == Split(config0)
            lines == Split(config)
        IN  /\ HoldsTuple(config, applied[Len(applied)].tuple)
            /\ Contract(config)
            /\ Len(lines) = Len(lines0)
            /\ \A k \in 1..Len(lines0) :
                  ~Recognized(lines0[k]) => lines[k] = lines0[k]

\* the best tuple has replaced the values of a different last trial tuple
ConfigInvariantWitness ==
    /\ pc = "done"
    /\ Contract(config0)
    /\ Len(applied) >= 2
    /\ applied[Len(applied)].kind = "best"
    /\ applied[Len(applied)].tuple # applied[Len(applied) - 1].tuple
    /\ \E k \in 1..Len(Split(config0)) : Split(config0)[k] = L_indent

\* C3 as stated: no failure of a per-tuple step ends the sweep, so main() can
\* only end on an exception after every tuple of the grid has been processed.
SweepNeverAborted ==
    pc = "crashed" => Len(hist) = Len(grid)

\* C4: a tuple whose command timed out has an absent outcome and is in neither
\* the results nor the report; the loop still runs every tuple of the grid, and
\* the report holds the populated outcomes of the other tuples.
TimeoutIsolated ==
    \A k \in 1..Len(hist) :
        hist[k].run = "timed_out" =>
            /\ hist[k].outcome = <<>>
            /\ \A j \in 1..Len(results) : TupleOf(results[j]) # hist[k].tuple
            /\ pc \in {"table", "report", "apply", "done"} => Len(hist) = Len(grid)
            /\ report # <<>> =>
                  /\ Len(hist) = Len(grid)
                  /\ \A j \in 1..Len(report[1]) : TupleOf(report[1][j]) # hist[k].tuple
                  /\ IsPermutation(report[1], Outcomes(hist))

\* the first tuple timed out, a later tuple was run and is in the report
TimeoutIsolatedWitness ==
    /\ pc = "done"
    /\ Len(hist) >= 2
    /\ hist[1].run = "timed_out"
    /\ report # <<>>
    /\ Len(report[1]) = Len(hist) - 1

\* every tuple of the grid has been processed and none gave an outcome
AllAbsent ==
    /\ Len(hist) = Len(grid)
    /\ \A k \in 1..Len(hist) : hist[k].outcome = <<>>

\* C5: when every run gives an absent outcome no best configuration is
\* written, the file stays as the last trial patch left it, and main() ends
\* with a report that holds an empty ranking.
AllAbsentNoApply ==
    AllAbsent =>
        /\ \A j \in 1..Len(applied) : applied[j].kind = "trial"
        /\ pc \in {"apply", "done"} => report = << <<>> >>
        /\ pc = "done" => config = TrialPatched(before, grid[Len(grid)])
        /\ pc = "crashed" => error = "report"

\* main() has ended after a timeout and an unreadable artifact
AllAbsentWitness ==
    /\ pc = "done"
    /\ AllAbsent
    /\ report = << <<>> >>
    /\ \E k \in 1..Len(hist) : hist[k].run = "completed" /\ hist[k].fresh # 0
    /\ \E k \in 1..Len(hist) : hist[k].run = "timed_out"

\* C6: the ranked list of the report is sorted non-increasing by hard
\* accuracy and is a permutation of the populated outcomes of the runs.
RankedReport ==
    report # <<>> =>
        /\ SortedDesc(report[1])
        /\ IsPermutation(report[1], Outcomes(hist))

\* the report holds two outcomes that were collected in ascending order
RankedReportWitness ==
    /\ report # <<>>
    /\ Len(hist) = 2
    /\ Len(report[1]) = 2
    /\ hist[1].outcome # <<>>
    /\ report[1][2] = hist[1].outcome[1]
    /\ report[1][1].hard_accuracy > report[1][2].hard_accuracy

\* the line numbers at which the file after a patch differs from the file before
Changed(lb, la) == {k \in 1..Len(lb) : k > Len(la) \/ la[k] # lb[k]}

RecognizedAt(lb) == {k \in 1..Len(lb) : Recognized(lb[k])}

\* each recognized line of the file before the patch holds, after the patch,
\* the value of tuple t for its setting
NewValuesIn(lb, la, t) ==
    \A k \in 1..Len(lb) : \A p \in 1..3 :
        StartsWith(lb[k], Prefixes[p]) =>
            /\ k <= Len(la)
            /\ HasValue(la[k], Prefixes[p])
            /\ ValueOf(la[k], Prefixes[p]) = t[p]

LatestIsTrialOnContract ==
    /\ applied # <<>>
    /\ applied[Len(applied)].kind = "trial"
    /\ Contract(config0)

\* C7 as stated: each trial patch keeps the line count and exactly the
\* three recognized lines differ from the content before the patch, each
\* containing the new value.
PatchChangesThreeLines ==
    LatestIsTrialOnContract =>
        LET lb == Split(before)
            la == Split(config)
        IN  /\ Len(la) = Len(lb)
            /\ Changed(lb, la) = RecognizedAt(lb)
            /\ Cardinality(Changed(lb, la)) = 3
            /\ NewValuesIn(lb, la, applied[Len(applied)].tuple)

\* C7 amended: each trial patch keeps the line count, no line but the three
\* recognized lines differs from the content before the patch, and each of the
\* three recognized lines contains the new value.
PatchChangesOnlyRecognized ==
    LatestIsTrialOnContract =>
        LET lb == Split(before)
            la == Split(config)
        IN  /\ Len(la) = Len(lb)
            /\ Changed(lb, la) \subseteq RecognizedAt(lb)
            /\ Cardinality(RecognizedAt(lb)) = 3
            /\ NewValuesIn(lb, la, applied[Len(applied)].tuple)

\* the patch of the second tuple rewrote a recognized line with the text it had
PatchChangesWitness ==
    /\ LatestIsTrialOnContract
    /\ Len(applied) = 2
    /\ LET lb == Split(before)
           la == Split(config)
       IN  /\ Cardinality(Changed(lb, la)) = 2
           /\ \E k \in 1..Len(lb) : StartsWith(lb[k], EPISODES_PREFIX) /\ la[k] = lb[k]

\* C10 as stated: a run that finds no artifact, or reads one that is not
\* parseable, lacks a field or holds a non-numeric field, gives an absent
\* outcome, and no exception of the table ends main().
ArtifactFailsSoft ==
    /\ error # "table"
    /\ \A k \in 1..Len(hist) :
          ( /\ hist[k].run = "completed"
            /\ (hist[k].seen = 0 \/ ArtifactAt(hist[k].seen).doc \in BadDocs) )
          => hist[k].outcome = <<>>

\* C11 as stated: main() ends on an exception only when the report cannot be
\* written.
OnlyReportFailureIsFatal ==
    pc = "crashed" => error = "report"

\* C12 as stated: the artifact is located and read only after the command
\* exited with status 0, so a command that exits with a failure status gives no
\* populated outcome.
FailedCommandGivesNoOutcome ==
    \A k \in 1..Len(hist) :
        (hist[k].run = "completed" /\ hist[k].returncode # 0) =>
            (hist[k].seen = 0 /\ hist[k].outcome = <<>>)

\* the for loop of main() has ended and the list is not sorted yet
GridExhausted == pc = "loop" /\ i > Len(grid)

SingleWriter ==
    /\ Cardinality(children) <= 1
    /\ pc = "exec" => children = {}

GridIndex(t) == CHOOSE k \in 1..Len(grid) : grid[k] = t

\* C16: outcomes of equal hard accuracy are in the ranked list in grid order,
\* and the best configuration applied is the grid-earliest tuple among those
\* of maximum hard accuracy.
StableRanking ==
    /\ report # <<>> =>
          \A j, k \in 1..Len(report[1]) :
              (j < k /\ report[1][j].hard_accuracy = report[1][k].hard_accuracy)
                  => GridIndex(TupleOf(report[1][j])) < GridIndex(TupleOf(report[1][k]))
    /\ (pc = "done" /\ results # <<>>) =>
          /\ applied[Len(applied)].kind = "best"
          /\ \A k \in 1..Len(results) :
                results[k].hard_accuracy >= results[1].hard_accuracy
                    => GridIndex(applied[Len(applied)].tuple) <= GridIndex(TupleOf(results[k]))

\* two tuples tie and the first tuple of the grid has been applied as the best
StableRankingWitness ==
    /\ pc = "done"
    /\ Len(results) = 2
    /\ results[1].hard_accuracy = results[2].hard_accuracy
    /\ applied[Len(applied)] = [kind |-> "best", tuple |-> grid[1]]
    /\ grid[1] # grid[2]

\* C17 as stated: writing the report leaves the report of an earlier sweep
\* intact.
ReportNeverOverwritten ==
    reportFiles[PriorSecond] = <<PriorRanking>>

\* C18 as stated: a populated outcome of tuple k carries the artifact the run
\* of tuple k wrote, and no two populated outcomes carry the same artifact.
OwnArtifactAttributed ==
    /\ \A k \in 1..Len(hist) :
          hist[k].outcome # <<>> =>
              /\ hist[k].outcome[1].results_file = hist[k].fresh
              /\ ArtifactAt(hist[k].outcome[1].results_file).writer = k
    /\ \A j, k \in 1..Len(hist) :
          (j # k /\ hist[j].outcome # <<>> /\ hist[k].outcome # <<>>)
              => hist[j].outcome[1].results_file # hist[k].outcome[1].results_file

\* line.endswith(suffix)
EndsWith(line, suffix) ==
    /\ Len(line) >= Len(suffix)
    /\ SubSeq(line, Len(line) - Len(suffix) + 1, Len(line)) = suffix

\* every recognized line holds the value of tuple t and the trial annotation
HoldsTrialOf(content, t) ==
    LET lines == Split(content)
    IN  /\ HoldsTuple(content, t)
        /\ \A k \in 1..Len(lines) : Recognized(lines[k]) => EndsWith(lines[k], TRIAL_COMMENT)

\* C19: only the tuples of the grid are written, never the values the file
\* began with; when main() ends with an empty ranking, or on the failure of the
\* report write, the recognized lines hold the last grid tuple with the trial
\* annotation and no best configuration has been applied.
NoRestore ==
    /\ \A j \in 1..Len(applied) : applied[j].kind = "trial" => applied[j].tuple = grid[j]
    /\ ((pc = "done" /\ results = <<>>) \/ (pc = "crashed" /\ error = "report")) =>
          /\ Len(applied) = Len(grid)
          /\ \A j \in 1..Len(applied) : applied[j].kind = "trial"
          /\ HoldsTrialOf(config, grid[Len(grid)])

\* the report write failed with a winner that is not the last tuple
NoRestoreWitness ==
    /\ pc = "crashed"
    /\ error = "report"
    /\ results # <<>>
    /\ TupleOf(results[1]) # grid[Len(grid)]
    /\ Contract(config0)
    /\ config # config0

====
